---- MODULE Spec2Model ----
(***************************************************************************)
(* Model of cybernetic-system/native/validator-runtime/src/lib.rs: the     *)
(* message-admission check `validate(input_ptr, input_len) -> i32`.        *)
(*                                                                         *)
(* A buffer is a sequence of bytes (0..255).  The three stages of the      *)
(* function are modelled by what they compute on those bytes:              *)
(*   std::str::from_utf8            -> from_utf8                           *)
(*   serde_json::from_str::<Message> -> from_str (with the derived         *)
(*                                     Deserialize of struct Message)      *)
(*   the header policy              -> policy                              *)
(* and the two output channels (the i32 status and print! on the process's *)
(* standard output) by the actions below.                                  *)
(***************************************************************************)
EXTENDS Integers, Sequences, FiniteSets, TLC

(***************************************************************************)
(* The state: the callers' buffers and calls, and the process's stdout     *)
(***************************************************************************)

\* The threads of the host that call validate.
Callers == {1, 2}

VARIABLES
  mem,      \* mem[c]: the bytes of caller c's buffer (<<>>: no buffer)
  given,    \* given[c]: the bytes the host put there for the current call
  pc,       \* pc[c]: where caller c's call stands
  plan,     \* plan[c]: the call's local result, once decided
  ret,      \* ret[c]: the i32 the call returned, -1 before it returns
  emitted,  \* emitted[c]: the texts the call's print! has handed to stdout
  pending,  \* bytes in stdout's buffer
  sinkOk,   \* whether writes to what stdout is attached to succeed
  aborted   \* the process was aborted

vars == <<mem, given, pc, plan, ret, emitted, pending, sinkOk, aborted>>

(***************************************************************************)
(* Bytes and text                                                          *)
(***************************************************************************)

\* The byte at 1-based position i of b, or -1 past the end (peek() == None).
Byte(b, i) == IF i >= 1 /\ i <= Len(b) THEN b[i] ELSE -1

IsDigit(c) == c >= 48 /\ c <= 57
IsHex(c) == IsDigit(c) \/ (c >= 97 /\ c <= 102) \/ (c >= 65 /\ c <= 70)
HexVal(c) == IF IsDigit(c) THEN c - 48 ELSE IF c >= 97 THEN c - 87 ELSE c - 55
IsCont(c) == c >= 128 /\ c <= 191

\* The first position k >= i whose byte is not in `run`, the end of the
\* buffer (-1) never being in it: how a reader skips a run of bytes.
SkipRun(b, i, run) ==
  CHOOSE k \in i..(Len(b) + 1) :
    /\ Byte(b, k) \notin run
    /\ \A j \in i..(k - 1) : b[j] \in run

\* std::str::from_utf8: TRUE iff the bytes from position i0 on are well-formed
\* UTF-8 (shortest form, no surrogates, nothing above U+10FFFF).  A run of
\* ASCII is skipped at once, as run_utf8_validation does.
RECURSIVE utf8_valid_from(_, _)
utf8_valid_from(b, i0) ==
  LET i == SkipRun(b, i0, 0..127)
  IN
  IF i > Len(b) THEN TRUE
  ELSE LET c  == b[i]
           c1 == Byte(b, i + 1)
           c2 == Byte(b, i + 2)
           c3 == Byte(b, i + 3)
       IN  IF c < 128 THEN utf8_valid_from(b, i + 1)
           ELSE IF c >= 194 /\ c <= 223
             THEN IsCont(c1) /\ utf8_valid_from(b, i + 2)
           ELSE IF c >= 224 /\ c <= 239
             THEN /\ IF c = 224 THEN c1 >= 160 /\ c1 <= 191
                     ELSE IF c = 237 THEN c1 >= 128 /\ c1 <= 159
                     ELSE IsCont(c1)
                  /\ IsCont(c2)
                  /\ utf8_valid_from(b, i + 3)
           ELSE IF c >= 240 /\ c <= 244
             THEN /\ IF c = 240 THEN c1 >= 144 /\ c1 <= 191
                     ELSE IF c = 244 THEN c1 >= 128 /\ c1 <= 143
                     ELSE IsCont(c1)
                  /\ IsCont(c2)
                  /\ IsCont(c3)
                  /\ utf8_valid_from(b, i + 4)
           ELSE FALSE

\* line 12: std::str::from_utf8(slice) is Ok.
from_utf8(slice) == utf8_valid_from(slice, 1)

\* char::encode_utf8, used by the parser for a \uXXXX escape.
encode_utf8(cp) ==
  IF cp < 128 THEN <<cp>>
  ELSE IF cp < 2048 THEN <<192 + (cp \div 64), 128 + (cp % 64)>>
  ELSE IF cp < 65536
    THEN <<224 + (cp \div 4096), 128 + ((cp \div 64) % 64), 128 + (cp % 64)>>
  ELSE <<240 + (cp \div 262144), 128 + ((cp \div 4096) % 64),
         128 + ((cp \div 64) % 64), 128 + (cp % 64)>>

(***************************************************************************)
(* serde_json::Value and the JSON reader                                   *)
(***************************************************************************)

Null == [t |-> "Null"]
Bool(x) == [t |-> "Bool", b |-> x]
Number == [t |-> "Number"]
String(s) == [t |-> "String", s |-> s]
Array(a) == [t |-> "Array", a |-> a]
Object(m) == [t |-> "Object", m |-> m]

\* A parse result: failure, or success at the position after what was read.
Err == [ok |-> FALSE, pos |-> 0, v |-> Null]
Ok(p, val) == [ok |-> TRUE, pos |-> p, v |-> val]

\* Map::insert: a later occurrence of a key replaces the earlier one.
Insert(m, k, val) == [x \in (DOMAIN m) \cup {k} |-> IF x = k THEN val ELSE m[x]]
EmptyMap == [x \in {} |-> Null]

\* parse_whitespace: the position of the next byte that is not JSON
\* whitespace.
parse_whitespace(b, i) == SkipRun(b, i, {32, 10, 9, 13})

\* The end of a run of decimal digits.
DigitsEnd(b, i) == SkipRun(b, i, 48..57)

RECURSIVE DecVal(_, _, _)
DecVal(b, i, j) == IF j < i THEN 0 ELSE 10 * DecVal(b, i, j - 1) + (b[j] - 48)

\* parse_integer / parse_decimal / parse_exponent (strict: building a Value)
\* and ignore_integer / ignore_decimal / ignore_exponent (not strict: a
\* skipped field).  Position i is at the first digit; the sign is consumed.
\* Only the strict reader converts to f64 and fails with NumberOutOfRange:
\* f64_from_parts rejects a non-zero significand whose decimal exponent is
\* beyond 308 or whose product is infinite.  The product test is modelled for
\* magnitudes of at least 10^309; inputs stay away from the 1.8e308 limit.
parse_number(b, i, strict) ==
  LET c == Byte(b, i)
      intEnd == IF c = 48 THEN i + 1 ELSE DigitsEnd(b, i)
      hasFrac == Byte(b, intEnd) = 46
      fracEnd == IF hasFrac THEN DigitsEnd(b, intEnd + 1) ELSE intEnd
      hasExp == Byte(b, fracEnd) \in {101, 69}
      signed == Byte(b, fracEnd + 1) \in {43, 45}
      expFrom == IF signed THEN fracEnd + 2 ELSE fracEnd + 1
      expEnd == IF hasExp THEN DigitsEnd(b, expFrom) ELSE fracEnd
      digitPos == {k \in i..(fracEnd - 1) : IsDigit(b[k])}
      nonzero == {k \in digitPos : b[k] # 48}
      sigDigits == Cardinality({k \in digitPos : \E z \in nonzero : z <= k})
      fracDigits == IF hasFrac THEN fracEnd - (intEnd + 1) ELSE 0
      expAbs == IF hasExp THEN DecVal(b, expFrom, expEnd - 1) ELSE 0
      exp == IF hasExp /\ Byte(b, fracEnd + 1) = 45 THEN 0 - expAbs ELSE expAbs
  IN  IF ~IsDigit(c) THEN Err
      ELSE IF c = 48 /\ IsDigit(Byte(b, i + 1)) THEN Err
      ELSE IF hasFrac /\ fracEnd = intEnd + 1 THEN Err
      ELSE IF hasExp /\ expEnd = expFrom THEN Err
      ELSE IF strict /\ nonzero # {} /\ sigDigits + exp - fracDigits > 309 THEN Err
      ELSE Ok(expEnd, Number)

\* parse_ident: the rest of a literal must follow.
parse_ident(b, i, rest, val) ==
  IF \A k \in 1..Len(rest) : Byte(b, i + k - 1) = rest[k]
  THEN Ok(i + Len(rest), val) ELSE Err

\* decode_hex_escape: four hex digits at i..i+3, or -1.
decode_hex_escape(b, i) ==
  IF \A k \in 0..3 : IsHex(Byte(b, i + k))
  THEN 4096 * HexVal(b[i]) + 256 * HexVal(b[i + 1]) + 16 * HexVal(b[i + 2])
       + HexVal(b[i + 3])
  ELSE -1

\* parse_str (strict: surrogate escapes are validated) and ignore_str (not
\* strict: any four hex digits pass).  Position i0 is after the opening
\* quote; the result's position is after the closing quote.  A run of plain
\* bytes is taken at once (skip_to_escape); it ends at a quote, a backslash, a
\* control character (an error) or the end of the text (an error).
\* ignore_str throws the text away; the model keeps it (an unpaired surrogate
\* escape contributes nothing) so that properties can speak of the document
\* that was skipped.
RECURSIVE parse_str(_, _, _, _)

\* parse_unicode_escape, after the first four hex digits (n1) at i..i+3.
unicode_escape(b, i, acc, strict, n1, n2) ==
  IF n1 = -1 THEN Err
  ELSE IF ~strict
    THEN parse_str(b, i + 4,
           IF n1 >= 55296 /\ n1 <= 57343 THEN acc ELSE acc \o encode_utf8(n1),
           strict)
  ELSE IF n1 >= 56320 /\ n1 <= 57343 THEN Err
  ELSE IF n1 < 55296 \/ n1 > 56319 THEN parse_str(b, i + 4, acc \o encode_utf8(n1), strict)
  ELSE IF Byte(b, i + 4) # 92 \/ Byte(b, i + 5) # 117 THEN Err
  ELSE IF n2 < 56320 \/ n2 > 57343 THEN Err
  ELSE parse_str(b, i + 10,
         acc \o encode_utf8(65536 + 1024 * (n1 - 55296) + (n2 - 56320)), strict)

\* The byte a one-letter escape stands for, or -1.
simple_escape(c) ==
  CASE c = 34 -> 34 [] c = 92 -> 92 [] c = 47 -> 47
    [] c = 98 -> 8 [] c = 102 -> 12 [] c = 110 -> 10
    [] c = 114 -> 13 [] c = 116 -> 9 [] OTHER -> -1

\* parse_escape / ignore_escape: position i is after the backslash.
parse_escape(b, i, acc, strict) ==
  IF Byte(b, i) = 117
  THEN unicode_escape(b, i + 1, acc, strict,
                      decode_hex_escape(b, i + 1), decode_hex_escape(b, i + 7))
  ELSE IF simple_escape(Byte(b, i)) = -1 THEN Err
  ELSE parse_str(b, i + 1, Append(acc, simple_escape(Byte(b, i))), strict)

str_at(b, i, acc, strict) ==
  IF Byte(b, i) = 34 THEN Ok(i + 1, acc)
  ELSE IF Byte(b, i) = 92 THEN parse_escape(b, i + 1, acc, strict)
  ELSE Err

str_run(b, i0, i, acc0, strict) == str_at(b, i, acc0 \o SubSeq(b, i0, i - 1), strict)

parse_str(b, i0, acc0, strict) ==
  str_run(b, i0, SkipRun(b, i0, (32..255) \ {34, 92}), acc0, strict)

\* Deserialize for Value (deserialize_any with ValueVisitor) when strict, and
\* ignore_value (Deserialize for IgnoredAny) when not: both accept the same
\* grammar; only the strict one range-checks numbers and validates surrogate
\* escapes.  serde_json's nesting limit (128) is beyond any buffer considered
\* here.
RECURSIVE parse_value(_, _, _)
RECURSIVE parse_seq(_, _, _, _, _)
RECURSIVE parse_map(_, _, _, _, _)

str_value(r) == IF r.ok THEN Ok(r.pos, String(r.v)) ELSE Err

value_at(b, i, strict) ==
  IF Byte(b, i) = 110 THEN parse_ident(b, i + 1, <<117, 108, 108>>, Null)
  ELSE IF Byte(b, i) = 116 THEN parse_ident(b, i + 1, <<114, 117, 101>>, Bool(TRUE))
  ELSE IF Byte(b, i) = 102 THEN parse_ident(b, i + 1, <<97, 108, 115, 101>>, Bool(FALSE))
  ELSE IF Byte(b, i) = 45 \/ IsDigit(Byte(b, i))
    THEN parse_number(b, IF Byte(b, i) = 45 THEN i + 1 ELSE i, strict)
  ELSE IF Byte(b, i) = 34 THEN str_value(parse_str(b, i + 1, <<>>, strict))
  ELSE IF Byte(b, i) = 91 THEN parse_seq(b, i + 1, TRUE, <<>>, strict)
  ELSE IF Byte(b, i) = 123 THEN parse_map(b, i + 1, TRUE, EmptyMap, strict)
  ELSE Err

parse_value(b, i0, strict) == value_at(b, parse_whitespace(b, i0), strict)

\* SeqAccess::next_element_seed in a loop, then end_seq: `]` ends the array;
\* after the first element a comma must come, and no `]` right after it.
seq_push(b, r, acc, strict) ==
  IF r.ok THEN parse_seq(b, r.pos, FALSE, Append(acc, r.v), strict) ELSE Err

seq_elem(b, j, first, acc, strict) ==
  IF ~first /\ Byte(b, j) = 93 THEN Err
  ELSE seq_push(b, parse_value(b, j, strict), acc, strict)

seq_at(b, i, first, acc, strict) ==
  IF Byte(b, i) = 93 THEN Ok(i + 1, Array(acc))
  ELSE IF Byte(b, i) = -1 THEN Err
  ELSE IF ~first /\ Byte(b, i) # 44 THEN Err
  ELSE seq_elem(b, IF first THEN i ELSE parse_whitespace(b, i + 1), first, acc, strict)

parse_seq(b, i0, first, acc, strict) ==
  seq_at(b, parse_whitespace(b, i0), first, acc, strict)

\* MapAccess::next_key_seed / next_value_seed in a loop, then end_map: `}`
\* ends the object; after the first member a comma must come; a key is a
\* string, followed by a colon and a value.
map_insert(b, k, r, acc, strict) ==
  IF r.ok THEN parse_map(b, r.pos, FALSE, Insert(acc, k.v, r.v), strict) ELSE Err

map_colon(b, k, colon, acc, strict) ==
  IF Byte(b, colon) # 58 THEN Err
  ELSE map_insert(b, k, parse_value(b, colon + 1, strict), acc, strict)

map_key(b, k, acc, strict) ==
  IF k.ok THEN map_colon(b, k, parse_whitespace(b, k.pos), acc, strict) ELSE Err

map_member(b, j, acc, strict) ==
  IF Byte(b, j) # 34 THEN Err
  ELSE map_key(b, parse_str(b, j + 1, <<>>, strict), acc, strict)

map_at(b, i, first, acc, strict) ==
  IF Byte(b, i) = 125 THEN Ok(i + 1, Object(acc))
  ELSE IF Byte(b, i) = -1 THEN Err
  ELSE IF ~first /\ Byte(b, i) # 44 THEN Err
  ELSE map_member(b, IF first THEN i ELSE parse_whitespace(b, i + 1), acc, strict)

parse_map(b, i0, first, acc, strict) ==
  map_at(b, parse_whitespace(b, i0), first, acc, strict)

(***************************************************************************)
(* struct Message and its derived Deserialize                              *)
(***************************************************************************)

\* The field names of struct Message and the header keys of the policy, as
\* the bytes of their UTF-8 text.
F_headers == <<104, 101, 97, 100, 101, 114, 115>>
F_payload == <<112, 97, 121, 108, 111, 97, 100>>
K_nonce == <<95, 110, 111, 110, 99, 101>>
K_timestamp == <<95, 116, 105, 109, 101, 115, 116, 97, 109, 112>>
K_signature_alg == <<95, 115, 105, 103, 110, 97, 116, 117, 114, 101, 95, 97, 108, 103>>
HmacSha256 == <<104, 109, 97, 99, 45, 115, 104, 97, 50, 53, 54>>

Message(h, p) == [headers |-> h, payload |-> p]

\* The derived Visitor::visit_map, followed by end_map.  h and p are the
\* Option<Value> slots of the two fields, as sets of at most one element.  A
\* repeated field is an error (duplicate_field), an unknown key's value is
\* skipped as IgnoredAny, and a field still empty at `}` is an error
\* (missing_field: Value has no default).
RECURSIVE visit_map(_, _, _, _, _)

field_store(b, k, r, h, p) ==
  IF r.ok
  THEN visit_map(b, r.pos, FALSE,
                 IF k.v = F_headers THEN {r.v} ELSE h,
                 IF k.v = F_payload THEN {r.v} ELSE p)
  ELSE Err

field_colon(b, k, colon, h, p) ==
  IF Byte(b, colon) # 58 THEN Err
  ELSE field_store(b, k, parse_value(b, colon + 1, k.v \in {F_headers, F_payload}), h, p)

field_key(b, k, h, p) ==
  IF ~k.ok THEN Err
  ELSE IF k.v = F_headers /\ h # {} THEN Err
  ELSE IF k.v = F_payload /\ p # {} THEN Err
  ELSE field_colon(b, k, parse_whitespace(b, k.pos), h, p)

field_member(b, j, h, p) ==
  IF Byte(b, j) # 34 THEN Err
  ELSE field_key(b, parse_str(b, j + 1, <<>>, TRUE), h, p)

fields_at(b, i, first, h, p) ==
  IF Byte(b, i) = 125
    THEN IF h = {} \/ p = {} THEN Err
         ELSE Ok(i + 1, Message(CHOOSE x \in h : TRUE, CHOOSE x \in p : TRUE))
  ELSE IF Byte(b, i) = -1 THEN Err
  ELSE IF ~first /\ Byte(b, i) # 44 THEN Err
  ELSE field_member(b, IF first THEN i ELSE parse_whitespace(b, i + 1), h, p)

visit_map(b, i0, first, h, p) == fields_at(b, parse_whitespace(b, i0), first, h, p)

\* The derived Visitor::visit_seq, followed by end_seq: serde_json's
\* deserialize_struct also takes a JSON array, whose first element is read as
\* `headers` and whose second as `payload`; fewer elements are an error
\* (invalid_length) and so is anything but `]` after the second.
end_seq(b, i2, r0, r1) ==
  IF Byte(b, i2) = 93 THEN Ok(i2 + 1, Message(r0.v, r1.v)) ELSE Err

seq_payload(b, r0, r1) ==
  IF r1.ok THEN end_seq(b, parse_whitespace(b, r1.pos), r0, r1) ELSE Err

seq_second(b, r0, j) ==
  IF Byte(b, j) = 93 THEN Err ELSE seq_payload(b, r0, parse_value(b, j, TRUE))

seq_comma(b, r0, i1) ==
  IF Byte(b, i1) # 44 THEN Err ELSE seq_second(b, r0, parse_whitespace(b, i1 + 1))

seq_headers(b, r0) ==
  IF r0.ok THEN seq_comma(b, r0, parse_whitespace(b, r0.pos)) ELSE Err

seq_first(b, i) ==
  IF Byte(b, i) = 93 THEN Err ELSE seq_headers(b, parse_value(b, i, TRUE))

visit_seq(b, i0) == seq_first(b, parse_whitespace(b, i0))

\* Deserializer::deserialize_struct: an array or an object, nothing else.
struct_at(b, i) ==
  IF Byte(b, i) = 91 THEN visit_seq(b, i + 1)
  ELSE IF Byte(b, i) = 123 THEN visit_map(b, i + 1, TRUE, {}, {})
  ELSE Err

deserialize_struct(b) == struct_at(b, parse_whitespace(b, 1))

\* Deserializer::end: only whitespace may follow.
end(s, r) == IF r.ok /\ parse_whitespace(s, r.pos) > Len(s) THEN r ELSE Err

\* line 17: serde_json::from_str::<Message>(s).
from_str(s) == end(s, deserialize_struct(s))

(***************************************************************************)
(* The policy and the decision                                             *)
(***************************************************************************)

\* Value::get(&str): Some(value) for a key of an object, None for a missing
\* key and for every value that is not an object.  An Option is a set of at
\* most one element.
get(val, key) ==
  IF val.t = "Object" /\ key \in DOMAIN val.m THEN {val.m[key]} ELSE {}

\* impl PartialEq<&str> for Value: a string with exactly these bytes.
eq_str(val, str) == val.t = "String" /\ val.s = str

\* Variants of `ok` with a slip in them: a null value taken for a missing
\* key; the algorithm checked for presence only; an admission remembered
\* from one call to the next.
policy_nonnull(m) ==
  /\ get(m.headers, K_nonce) \notin {{}, {Null}}
  /\ get(m.headers, K_timestamp) \notin {{}, {Null}}
  /\ \E a \in get(m.headers, K_signature_alg) : eq_str(a, HmacSha256)

policy_presence_only(m) ==
  /\ get(m.headers, K_nonce) # {}
  /\ get(m.headers, K_timestamp) # {}
  /\ get(m.headers, K_signature_alg) # {}

policy_replay(m) ==
  /\ get(m.headers, K_nonce) # {}
  /\ get(m.headers, K_timestamp) # {}
  /\ \E a \in get(m.headers, K_signature_alg) : eq_str(a, HmacSha256)
  /\ \A c \in Callers : ret[c] # 0

\* lines 20-22: `ok`.
policy(m) ==
  /\ get(m.headers, K_nonce) # {}
  /\ get(m.headers, K_timestamp) # {}
  /\ \E a \in get(m.headers, K_signature_alg) : eq_str(a, HmacSha256)

\* What a call hands to its two channels: the i32 it returns and the pieces
\* the one print! it runs writes, in order.
Outcome(st, pieces) == [status |-> st, out |-> pieces]

\* A variant of reject that reports failure the C way.
reject_errno(reason) == Outcome(-1, <<"REJECT:", reason>>)

\* lines 30-33: print!("REJECT:{reason}") writes the literal, then the
\* argument; the function's value is 1.
reject(reason) == Outcome(1, <<"REJECT:", reason>>)

\* lines 17-27: the arms of the match on the parse result.
decide(r) ==
  IF r.ok
  THEN IF policy(r.v) THEN Outcome(0, <<"OK">>) ELSE reject("missing-headers")
  ELSE reject("bad-json")

\* lines 17-27: parse, then the policy.
check(s) == decide(from_str(s))

\* A variant of validate with the first two stages in the other order.
validate_parse_first(slice) ==
  IF from_str(slice).ok
  THEN IF from_utf8(slice) THEN check(slice) ELSE reject("bad-utf8")
  ELSE reject("bad-json")

\* lines 10-28.
validate(slice) ==
  IF from_utf8(slice) THEN check(slice) ELSE reject("bad-utf8")

(***************************************************************************)
(* Standard output                                                         *)
(***************************************************************************)

\* The capacity of the buffer of the process's standard output (a LineWriter:
\* text without a newline stays buffered until the buffer cannot take more).
StdoutCap == 16

\* BufWriter::write_all of one piece of n bytes on a stream with st.pending
\* buffered bytes: it is buffered when it fits; otherwise the buffer is
\* flushed to the sink first, which fails when the sink does (a closed pipe,
\* a full disk), and the piece is then buffered, or written through when it
\* is as large as the buffer.
write_all(st, n, sink) ==
  IF ~st.ok THEN st
  ELSE IF st.pending + n <= StdoutCap THEN [ok |-> TRUE, pending |-> st.pending + n]
  ELSE IF ~sink THEN [ok |-> FALSE, pending |-> st.pending]
  ELSE IF n >= StdoutCap THEN [ok |-> TRUE, pending |-> 0]
  ELSE [ok |-> TRUE, pending |-> n]

\* Write::write_fmt under the stream's lock: the pieces one after the other,
\* stopping at the first error.
RECURSIVE write_fmt(_, _, _)
write_fmt(st, pieces, sink) ==
  IF pieces = <<>> THEN st
  ELSE write_fmt(write_all(st, Len(Head(pieces)), sink), Tail(pieces), sink)

\* The text one print! hands to the stream.
RECURSIVE Concat(_)
Concat(pieces) == IF pieces = <<>> THEN "" ELSE Head(pieces) \o Concat(Tail(pieces))

(***************************************************************************)
(* The buffers a host hands in                                             *)
(***************************************************************************)

\* Bounds of the enumeration: members of a top-level object, and blanks
\* around a message.
MaxMembers == 3
MaxPad == 2

T_null == <<110, 117, 108, 108>>
T_true == <<116, 114, 117, 101>>
T_zero == <<48>>
T_num == <<49, 50, 51>>
T_huge == <<49, 101, 57, 57, 57>>
T_frac == <<45, 48, 46, 53, 101, 45, 51>>
HmacSha1 == <<104, 109, 97, 99, 45, 115, 104, 97, 49>>
HmacUpper == <<72, 77, 65, 67, 45, 83, 72, 65, 50, 53, 54>>
\* hmac-sha256: the escape spells the hyphen.
HmacEscaped == <<104, 109, 97, 99, 92, 117, 48, 48, 50, 100, 115, 104, 97, 50, 53, 54>>
\* _nonce: the escape spells the underscore.
NonceEscaped == <<92, 117, 48, 48, 53, 102, 110, 111, 110, 99, 101>>
\* \ud800: an unpaired surrogate escape.
LoneSurrogate == <<92, 117, 100, 56, 48, 48>>
K_extra == <<101, 120, 116, 114, 97>>

Quote(text) == <<34>> \o text \o <<34>>
Member(k, v) == Quote(k) \o <<58>> \o v
RECURSIVE Join(_)
Join(parts) ==
  IF parts = <<>> THEN <<>>
  ELSE IF Len(parts) = 1 THEN parts[1]
  ELSE parts[1] \o <<44>> \o Join(Tail(parts))
Obj(members) == <<123>> \o Join(members) \o <<125>>
Arr(elems) == <<91>> \o Join(elems) \o <<93>>
Blanks(n) == [k \in 1..n |-> 32]

\* A headers object; <<>> stands for a key that is left out.
IsPresent(part) == part # <<>>
Opt(k, v) == IF v = <<>> THEN <<>> ELSE Member(k, v)
HeaderObj(n, t, a) ==
  Obj(SelectSeq(<<Opt(K_nonce, n), Opt(K_timestamp, t), Opt(K_signature_alg, a)>>,
                IsPresent))
GoodHeaders == HeaderObj(T_null, T_null, Quote(HmacSha256))
Msg(h, p) == Obj(<<Member(F_headers, h), Member(F_payload, p)>>)
GoodMsg == Msg(GoodHeaders, T_null)

NonceTexts == {<<>>, T_null, Quote(<<97>>)}
TimestampTexts == {<<>>, T_null, T_num}
AlgTexts ==
  {<<>>, Quote(HmacSha256), Quote(HmacSha1), Quote(HmacUpper), Quote(HmacEscaped),
   Quote(HmacSha256 \o <<32>>), Quote(<<>>), T_null, T_num,
   Arr(<<Quote(HmacSha256)>>), Obj(<<Member(HmacSha256, T_true)>>)}

\* Every combination of the three keys, present or not.
HeaderObjs ==
  {HeaderObj(n, t, a) : n \in NonceTexts, t \in TimestampTexts, a \in AlgTexts}

\* Headers that are no object, and objects that repeat or escape a key.
OddHeaders ==
  {T_null, T_num, T_true, Quote(HmacSha256), Arr(<<>>),
   Arr(<<Quote(K_nonce), Quote(K_timestamp), Quote(K_signature_alg)>>),
   Arr(<<GoodHeaders>>),
   Obj(<<Member(K_nonce, T_null), Member(K_timestamp, T_null),
         Member(K_signature_alg, Quote(HmacSha256)),
         Member(K_signature_alg, Quote(HmacSha1))>>),
   Obj(<<Member(K_nonce, T_null), Member(K_timestamp, T_null),
         Member(K_signature_alg, Quote(HmacSha1)),
         Member(K_signature_alg, Quote(HmacSha256))>>),
   Obj(<<Member(NonceEscaped, T_null), Member(K_timestamp, T_null),
         Member(K_signature_alg, Quote(HmacSha256))>>),
   Obj(<<Member(K_nonce, T_null), Member(K_timestamp, T_null),
         Member(K_signature_alg, Quote(HmacSha256)), Member(K_extra, T_huge)>>)}

PayloadTexts ==
  {T_null, T_zero, T_frac, T_huge, Quote(<<115>>), Quote(LoneSurrogate),
   Quote(<<92, 110>>), Quote(<<92, 120>>), Quote(<<10>>),
   Obj(<<Member(<<120>>, <<49>>)>>), Arr(<<<<49>>, Quote(<<97>>)>>),
   Arr(<<<<49>>, <<>>>>), Obj(<<Member(F_headers, GoodHeaders)>>), GoodMsg,
   <<48, 49>>, <<49, 46>>, <<45>>, <<116, 114, 117>>}

\* Top-level objects of up to MaxMembers members, each `headers`, `payload`
\* or another key, in every order and with repetitions.
MemberTexts ==
  {Member(F_headers, GoodHeaders), Member(F_payload, T_null), Member(K_extra, T_true)}
MemberSeqs == UNION {[1..n -> MemberTexts] : n \in 0..MaxMembers}
ObjectInputs == {Obj(m) : m \in MemberSeqs}

\* A skipped member, whose value is read less strictly than a field's.
SkippedInputs ==
  {Obj(<<Member(F_headers, GoodHeaders), Member(F_payload, T_null), Member(K_extra, v)>>) :
     v \in {T_huge, Quote(LoneSurrogate), <<48, 49>>, Quote(<<92, 120>>), Arr(<<T_huge, <<>>>>)}}

\* Top-level arrays: the struct's other wire form.
ArrayInputs ==
  {Arr(<<>>), Arr(<<GoodHeaders>>), Arr(<<GoodHeaders, T_null, T_null>>),
   Arr(<<GoodHeaders, T_null, <<>>>>), Arr(<<T_null, GoodHeaders>>)}
  \cup {Arr(<<h, p>>) : h \in {GoodHeaders, Obj(<<>>), T_null, HeaderObj(T_null, T_null, Quote(HmacSha1))},
                        p \in {T_null, GoodHeaders}}

\* Texts whose top-level value is neither.
ScalarInputs == {<<>>, Blanks(1), T_null, T_num, T_true, Quote(F_headers)}

\* A message cut short, padded, or followed by more text.
PrefixInputs == {SubSeq(GoodMsg, 1, n) : n \in 1..(Len(GoodMsg) - 1)}
PaddedInputs ==
  {Blanks(i) \o GoodMsg \o Blanks(j) : i \in 0..MaxPad, j \in 0..MaxPad}
  \cup {<<123, 10>> \o Member(F_headers, GoodHeaders) \o <<9, 44, 13>>
        \o Member(F_payload, T_null) \o <<32, 125, 10>>}
TrailingInputs == {GoodMsg \o t : t \in {<<120>>, <<44>>, <<125>>, GoodMsg, <<0>>}}

\* Bytes that are no UTF-8 (a byte that never occurs, an overlong form, a
\* surrogate, a code point beyond U+10FFFF, a lone continuation byte, a lead
\* byte cut short) and multi-byte characters that are.
BadChars ==
  {<<255>>, <<255, 254>>, <<192, 128>>, <<224, 128, 128>>, <<237, 160, 128>>,
   <<244, 144, 128, 128>>, <<128>>, <<195>>, <<226, 130>>, <<240, 159, 152>>}
GoodChars ==
  {<<195, 169>>, <<226, 130, 172>>, <<237, 159, 191>>, <<240, 159, 152, 128>>,
   <<244, 143, 191, 191>>, <<127>>}
WithNonce(ch) == Msg(HeaderObj(Quote(ch), T_null, Quote(HmacSha256)), T_null)
EncodingInputs ==
  {WithNonce(ch) : ch \in BadChars \cup GoodChars}
  \cup {ch \o GoodMsg : ch \in BadChars}
  \cup {SubSeq(GoodMsg, 1, 12) \o ch : ch \in BadChars \cup GoodChars}
  \cup {Msg(Obj(<<>>), Quote(ch)) : ch \in BadChars \cup GoodChars}
  \cup BadChars

Inputs ==
  {Msg(h, T_null) : h \in HeaderObjs \cup OddHeaders}
  \cup {Msg(GoodHeaders, p) : p \in PayloadTexts}
  \cup ObjectInputs \cup SkippedInputs \cup ArrayInputs \cup ScalarInputs
  \cup PrefixInputs \cup PaddedInputs \cup TrailingInputs \cup EncodingInputs

\* The buffers of the callers that run side by side.
ConcInputs ==
  {GoodMsg, Msg(Obj(<<>>), Obj(<<>>)), SubSeq(GoodMsg, 1, 12), <<255, 254>>,
   Arr(<<GoodHeaders, T_null>>)}

(***************************************************************************)
(* The state machine                                                       *)
(***************************************************************************)

NoPlan == Outcome(-1, <<>>)

Init ==
  /\ mem = [c \in Callers |-> <<>>]
  /\ given = [c \in Callers |-> <<>>]
  /\ pc = [c \in Callers |-> "idle"]
  /\ plan = [c \in Callers |-> NoPlan]
  /\ ret = [c \in Callers |-> -1]
  /\ emitted = [c \in Callers |-> <<>>]
  /\ pending = 0
  /\ sinkOk = TRUE
  /\ aborted = FALSE

\* The host readies a buffer for a call.
Fill(c, input) ==
  /\ ~aborted
  /\ pc[c] = "idle"
  /\ mem' = [mem EXCEPT ![c] = input]
  /\ given' = [given EXCEPT ![c] = input]
  /\ pc' = [pc EXCEPT ![c] = "ready"]
  /\ UNCHANGED <<plan, ret, emitted, pending, sinkOk, aborted>>

\* The host takes the result and drops the buffer.
Release(c) ==
  /\ ~aborted
  /\ pc[c] = "returned"
  /\ mem' = [mem EXCEPT ![c] = <<>>]
  /\ given' = [given EXCEPT ![c] = <<>>]
  /\ pc' = [pc EXCEPT ![c] = "idle"]
  /\ plan' = [plan EXCEPT ![c] = NoPlan]
  /\ ret' = [ret EXCEPT ![c] = -1]
  /\ emitted' = [emitted EXCEPT ![c] = <<>>]
  /\ UNCHANGED <<pending, sinkOk, aborted>>

\* What stdout is attached to starts or stops failing.
SinkFails == ~aborted /\ sinkOk /\ sinkOk' = FALSE
  /\ UNCHANGED <<mem, given, pc, plan, ret, emitted, pending, aborted>>
SinkRecovers == ~aborted /\ ~sinkOk /\ sinkOk' = TRUE
  /\ UNCHANGED <<mem, given, pc, plan, ret, emitted, pending, aborted>>

\* lines 24 and 31: print!(..).  The macro panics when the write fails, and a
\* panic that reaches the boundary of an extern "C" function aborts the
\* process.  `next` is where the call goes on when the text was written.
printed(c, o, next, st) ==
  /\ pending' = st.pending
  /\ IF st.ok
     THEN /\ emitted' = [emitted EXCEPT ![c] = Append(@, Concat(o.out))]
          /\ pc' = [pc EXCEPT ![c] = next]
          /\ aborted' = FALSE
     ELSE /\ emitted' = emitted
          /\ pc' = [pc EXCEPT ![c] = "panicked"]
          /\ aborted' = TRUE

print_to(c, o, next) ==
  printed(c, o, next, write_fmt([ok |-> TRUE, pending |-> pending], o.out, sinkOk))

\* lines 10-28: one call of validate, start to end.  The buffer is only read.
Finish(c, o) ==
  /\ plan' = [plan EXCEPT ![c] = o]
  /\ print_to(c, o, "returned")
  /\ ret' = [ret EXCEPT ![c] = IF aborted' THEN -1 ELSE o.status]

Call(c) ==
  /\ ~aborted
  /\ pc[c] = "ready"
  /\ Finish(c, validate(mem[c]))
  /\ UNCHANGED <<mem, given, sinkOk>>

Next ==
  \/ \E input \in Inputs : Fill(1, input)
  \/ Call(1)
  \/ Release(1)
  \/ SinkFails
  \/ SinkRecovers

Spec == Init /\ [][Next]_vars

(***************************************************************************)
(* Calls side by side: the same function, stage by stage                   *)
(***************************************************************************)

\* lines 11-15: the slice over the caller's buffer is decoded.
Decode(c) ==
  /\ ~aborted
  /\ pc[c] = "ready"
  /\ IF from_utf8(mem[c])
     THEN /\ pc' = [pc EXCEPT ![c] = "parse"]
          /\ plan' = plan
     ELSE /\ pc' = [pc EXCEPT ![c] = "print"]
          /\ plan' = [plan EXCEPT ![c] = reject("bad-utf8")]
  /\ UNCHANGED <<mem, given, ret, emitted, pending, sinkOk, aborted>>

\* A variant of Parse that keeps the result in one place for all calls.
Parse_shared(c) ==
  /\ ~aborted
  /\ pc[c] = "parse"
  /\ plan' = [d \in Callers |-> check(mem[c])]
  /\ pc' = [pc EXCEPT ![c] = "print"]
  /\ UNCHANGED <<mem, given, ret, emitted, pending, sinkOk, aborted>>

\* lines 17-27: the text (the same bytes) is parsed and the policy applied;
\* the result is local to the call.
Parse(c) ==
  /\ ~aborted
  /\ pc[c] = "parse"
  /\ plan' = [plan EXCEPT ![c] = check(mem[c])]
  /\ pc' = [pc EXCEPT ![c] = "print"]
  /\ UNCHANGED <<mem, given, ret, emitted, pending, sinkOk, aborted>>

\* lines 24 and 31: the one print!, under stdout's lock.
Emit(c) ==
  /\ ~aborted
  /\ pc[c] = "print"
  /\ print_to(c, plan[c], "return")
  /\ UNCHANGED <<mem, given, plan, ret, sinkOk>>

\* lines 24 and 32: the status goes back to the caller.
Return(c) ==
  /\ ~aborted
  /\ pc[c] = "return"
  /\ ret' = [ret EXCEPT ![c] = plan[c].status]
  /\ pc' = [pc EXCEPT ![c] = "returned"]
  /\ UNCHANGED <<mem, given, plan, emitted, pending, sinkOk, aborted>>

NextConc ==
  \/ \E c \in Callers, input \in ConcInputs : Fill(c, input)
  \/ \E c \in Callers : Decode(c)
  \/ \E c \in Callers : Parse(c)
  \/ \E c \in Callers : Emit(c)
  \/ \E c \in Callers : Return(c)
  \/ \E c \in Callers : Release(c)
  \/ SinkFails
  \/ SinkRecovers

SpecConc == Init /\ [][NextConc]_vars

(***************************************************************************)
(* The claims                                                              *)
(***************************************************************************)

Returned(c) == pc[c] = "returned"

\* What a returned call reported: its status and the one text it printed.
Accepted(c) == ret[c] = 0 /\ emitted[c] = <<"OK">>
Rejected(c, reason) == ret[c] = 1 /\ emitted[c] = <<"REJECT:" \o reason>>

\* The text as a JSON document, by the grammar alone: one value, then only
\* whitespace.
JsonDoc(b) == end(b, parse_value(b, 1, FALSE))

\* The text is a JSON object with the fields `headers` and `payload`.
carries_fields(d) ==
  d.ok /\ d.v.t = "Object" /\ {F_headers, F_payload} \subseteq DOMAIN d.v.m
CarriesFields(b) == carries_fields(JsonDoc(b))

\* The headers value is a mapping that satisfies the three rules.
HeadersSatisfy(h) ==
  /\ h.t = "Object"
  /\ {K_nonce, K_timestamp, K_signature_alg} \subseteq DOMAIN h.m
  /\ h.m[K_signature_alg] = String(HmacSha256)

admissible(d) == carries_fields(d) /\ HeadersSatisfy(d.v.m[F_headers])
Admissible(b) == from_utf8(b) /\ admissible(JsonDoc(b))

\* The parse succeeded (a well-formed message) and its headers do or do not
\* satisfy the rules.
parsed_with(r, sat) == r.ok /\ (HeadersSatisfy(r.v.headers) <=> sat)
ParsedWith(b, sat) == from_utf8(b) /\ parsed_with(from_str(b), sat)

\* The parse succeeded and the headers value is no mapping.
parsed_mistyped(d) == carries_fields(d) /\ d.v.m[F_headers].t # "Object"
Mistyped(b) == from_utf8(b) /\ parsed_mistyped(JsonDoc(b))

\* C1: a call returns status 0 only for valid UTF-8 that is a JSON object with
\* `headers` and `payload` whose headers hold `_nonce`, `_timestamp` and
\* `_signature_alg` = "hmac-sha256"; every other buffer gets status 1.
C1_NoSilentAcceptance ==
  \A c \in Callers :
    Returned(c) =>
      /\ ret[c] = 0 => Admissible(given[c])
      /\ ~Admissible(given[c]) => ret[c] = 1

\* C2: a well-formed message whose headers hold `_nonce` and `_timestamp`
\* (any value, null included) and `_signature_alg` = "hmac-sha256" is
\* accepted, whatever its payload.
C2_GoodHeadersAccepted ==
  \A c \in Callers : Returned(c) /\ ParsedWith(given[c], TRUE) => Accepted(c)

\* A message whose nonce and timestamp are null and whose payload is an
\* object has been accepted.
C2_Witness ==
  /\ Returned(1)
  /\ given[1] = Msg(GoodHeaders, Obj(<<Member(<<120>>, <<49>>)>>))
  /\ Accepted(1)

\* C3: bytes that are not valid UTF-8 are rejected as bad-utf8, whatever
\* else they hold; no parse or policy reason is reported for them.
C3_BadUtf8Rejected ==
  \A c \in Callers :
    Returned(c) /\ ~from_utf8(given[c]) => Rejected(c, "bad-utf8")

\* A buffer that is a complete message except for one overlong character
\* has been rejected as bad-utf8.
C3_Witness ==
  /\ Returned(1)
  /\ given[1] = Msg(Obj(<<>>), Quote(<<192, 128>>))
  /\ Rejected(1, "bad-utf8")

\* C4: valid UTF-8 that is not well-formed JSON, or is not a JSON object
\* with a `headers` and a `payload` field, is rejected as bad-json.
C4_NotAMessageIsBadJson ==
  \A c \in Callers :
    Returned(c) /\ from_utf8(given[c]) /\ ~CarriesFields(given[c])
      => Rejected(c, "bad-json")

\* C5: a JSON object with both fields whose `headers` is no mapping is
\* rejected as bad-json, not as missing-headers.
C5_MistypedHeadersIsBadJson ==
  \A c \in Callers :
    Returned(c) /\ Mistyped(given[c]) => Rejected(c, "bad-json")

\* C6: a message that parsed and whose headers lack `_nonce` or `_timestamp`,
\* or whose `_signature_alg` is absent, not a string, or another string, is
\* rejected as missing-headers.
C6_PolicyFailureIsMissingHeaders ==
  \A c \in Callers :
    Returned(c) /\ ParsedWith(given[c], FALSE) => Rejected(c, "missing-headers")

\* A message whose algorithm is the right text followed by a blank has been
\* rejected as missing-headers.
C6_Witness ==
  /\ Returned(1)
  /\ given[1] = Msg(HeaderObj(T_null, T_null, Quote(HmacSha256 \o <<32>>)), T_null)
  /\ Rejected(1, "missing-headers")

\* C7: every call returns: none panics or aborts the process, a failing
\* write of the diagnostic included, and the buffer is as it was handed in.
C7_AlwaysReturns ==
  /\ ~aborted
  /\ \A c \in Callers : pc[c] # "panicked" /\ mem[c] = given[c]

\* C8: a returned call reports status 0 with the one text "OK", or status 1
\* with the one text "REJECT:" and one of the three reasons; nothing else.
C8_TwoChannelsAgree ==
  \A c \in Callers :
    Returned(c) =>
      \/ Accepted(c)
      \/ \E reason \in {"bad-utf8", "bad-json", "missing-headers"} : Rejected(c, reason)

\* A call has returned a rejection.
C8_Witness == Returned(1) /\ ret[1] = 1 /\ Len(emitted[1]) = 1 /\ given[1] = <<255, 254>>

alone(c, o) == ret[c] = o.status /\ emitted[c] = <<Concat(o.out)>>

====
